---- MODULE Spec2Model ----
(***************************************************************************)
(* Model of src/server.js: an Express proxy in front of the Dead Anime     *)
(* API.  Two parts are modelled: the pure query sanitizer                  *)
(* (sanitizeParams) and the retrying upstream caller (proxyToDeadAnime)    *)
(* together with the route handlers that use them.  Spec serves requests   *)
(* one at a time over all inputs, ConcSpec and FairConcSpec interleave     *)
(* them, TlsSpec lets NODE_ENV change while the process runs, and SanSpec  *)
(* runs the sanitizer alone.                                               *)
(*                                                                         *)
(* Strings are sequences of one-character strings, so that trimming,       *)
(* slicing, parseInt and number formatting are computed, not assumed.      *)
(* A query value that Express delivers as an array of strings behaves in   *)
(* every place the code uses it (truthiness, String(), parseInt) like the  *)
(* elements joined by ",", which is a string of this model.                *)
(***************************************************************************)
EXTENDS Integers, Sequences, FiniteSets, TLC

VARIABLES
    \* ---- one slot per inbound request ----
    pc,          \* position of the request's handling
    route,       \* inbound path
    query,       \* req.query: raw key -> raw string
    callEndpoint,\* proxyToDeadAnime's endpoint argument
    callParams,  \* proxyToDeadAnime's queryParams argument
    attempt,     \* the for loop's counter
    lastError,   \* proxyToDeadAnime's lastError
    callState,   \* NONE / PENDING / SUCCESS / CLIENT_ERROR / FAILED
    callResult,  \* what the call returned or threw to the handler
    sent,        \* history: the upstream GETs issued, in order
    tls,         \* history: per GET, NODE_ENV then and the verification used
    log,         \* history: attempts, replies and waits, in order
    resStatus,   \* history: HTTP statuses sent to the inbound caller
    resBody,     \* body of the last response sent
    \* ---- the sanitizer taken alone ----
    sanArg,      \* argument of a sanitizeParams call
    sanRet,      \* its result
    sanPc,       \* "call" before the call, "returned" after
    \* ---- the process ----
    nodeEnv,            \* process.env.NODE_ENV
    rejectUnauthorized  \* the option httpsAgent was built with

reqVars == <<pc, route, query, callEndpoint, callParams, attempt, lastError,
             callState, callResult, sent, tls, log, resStatus, resBody>>
sanVars == <<sanArg, sanRet, sanPc>>
envVars == <<nodeEnv, rejectUnauthorized>>
vars == <<pc, route, query, callEndpoint, callParams, attempt, lastError,
          callState, callResult, sent, tls, log, resStatus, resBody,
          sanArg, sanRet, sanPc, nodeEnv, rejectUnauthorized>>

-----------------------------------------------------------------------------
(* Bounds *)

\* longest raw query value over the whole alphabet
MaxLen == 3
\* longest run of digits of a numeric raw query value
MaxDigits == 5
\* request slots
NumReqs == 2

-----------------------------------------------------------------------------
(* Strings *)

Alphabet == {"0", "1", "5", "-", " ", "a", "x", ","}
DecDigits == {"0", "1", "5"}

StringsUpTo(A, n) == UNION {[1..m -> A] : m \in 0..n}

Min(a, b) == IF a < b THEN a ELSE b
Max(a, b) == IF a > b THEN a ELSE b

IsWhiteSpace(c) == c = " "

RECURSIVE trimStart(_)
trimStart(s) ==
    IF s # <<>> /\ IsWhiteSpace(Head(s)) THEN trimStart(Tail(s)) ELSE s

RECURSIVE trimEnd(_)
trimEnd(s) ==
    IF s # <<>> /\ IsWhiteSpace(s[Len(s)])
    THEN trimEnd(SubSeq(s, 1, Len(s) - 1))
    ELSE s

\* String.prototype.trim
trim(s) == trimEnd(trimStart(s))

\* String.prototype.slice(0, n) for n >= 0
slice0(s, n) == SubSeq(s, 1, Min(Len(s), n))

\* value of a digit character in a radix, -1 when it is none
DigitVal(c, radix) ==
    LET v == CASE c = "0" -> 0 [] c = "1" -> 1 [] c = "2" -> 2 [] c = "3" -> 3
               [] c = "4" -> 4 [] c = "5" -> 5 [] c = "6" -> 6 [] c = "7" -> 7
               [] c = "8" -> 8 [] c = "9" -> 9
               [] c \in {"a", "A"} -> 10 [] c \in {"b", "B"} -> 11
               [] c \in {"c", "C"} -> 12 [] c \in {"d", "D"} -> 13
               [] c \in {"e", "E"} -> 14 [] c \in {"f", "F"} -> 15
               [] OTHER -> -1
    IN IF v < radix THEN v ELSE -1

RECURSIVE DigitRun(_, _)
DigitRun(s, radix) ==
    IF s = <<>> \/ DigitVal(Head(s), radix) < 0
    THEN <<>>
    ELSE <<Head(s)>> \o DigitRun(Tail(s), radix)

RECURSIVE DigitsValue(_, _, _)
DigitsValue(ds, radix, acc) ==
    IF ds = <<>> THEN acc
    ELSE DigitsValue(Tail(ds), radix, acc * radix + DigitVal(Head(ds), radix))

NaN == [nan |-> TRUE, n |-> 0]
Num(n) == [nan |-> FALSE, n |-> n]

\* parseInt(string) with no radix argument: leading white space, a sign,
\* a 0x prefix, then the longest run of digits; NaN when there is none
parseInt(s) ==
    LET t     == trimStart(s)
        neg   == t # <<>> /\ Head(t) = "-"
        u     == IF t # <<>> /\ Head(t) \in {"+", "-"} THEN Tail(t) ELSE t
        hex   == Len(u) >= 2 /\ u[1] = "0" /\ u[2] \in {"x", "X"}
        radix == IF hex THEN 16 ELSE 10
        w     == IF hex THEN SubSeq(u, 3, Len(u)) ELSE u
        ds    == DigitRun(w, radix)
        mag   == DigitsValue(ds, radix, 0)
    IN IF ds = <<>> THEN NaN ELSE Num(IF neg THEN 0 - mag ELSE mag)

\* JavaScript's  x || d  on a number x: NaN and 0 are falsy
OrDefault(x, d) == IF x.nan \/ x.n = 0 THEN d ELSE x.n

RECURSIVE NatToString(_)
NatToString(n) ==
    LET d == CASE n % 10 = 0 -> "0" [] n % 10 = 1 -> "1" [] n % 10 = 2 -> "2"
               [] n % 10 = 3 -> "3" [] n % 10 = 4 -> "4" [] n % 10 = 5 -> "5"
               [] n % 10 = 6 -> "6" [] n % 10 = 7 -> "7" [] n % 10 = 8 -> "8"
               [] OTHER -> "9"
    IN IF n < 10 THEN <<d>> ELSE NatToString(n \div 10) \o <<d>>

\* String(n) for an integer n
NumberToString(n) == IF n < 0 THEN <<"-">> \o NatToString(0 - n) ELSE NatToString(n)

-----------------------------------------------------------------------------
(* sanitizeParams *)

\* the keys sanitizeParams looks at, in the order it sets them
KeyOrder == <<"search", "slug", "season", "episode", "season_id",
              "start_ep", "end_ep", "limit", "page">>
Keys == {KeyOrder[i] : i \in 1..Len(KeyOrder)}
NumericKeys == {"season", "episode", "start_ep", "end_ep", "limit", "page"}

\* if (params.k): the key is there and its value is not the empty string
Truthy(params, k) == k \in DOMAIN params /\ params[k] # <<>>

\* the values of a sanitized parameter set: strings and numbers
StrV(s) == [t |-> "string", s |-> s, n |-> 0]
NumV(n) == [t |-> "number", s |-> <<>>, n |-> n]

sanSearch(v)   == StrV(slice0(trim(v), 200))
sanSlug(v)     == StrV(trim(v))
sanSeason(v)   == NumV(Max(1, OrDefault(parseInt(v), 1)))
sanEpisode(v)  == NumV(Max(1, OrDefault(parseInt(v), 1)))
sanSeasonId(v) == StrV(v)
sanStartEp(v)  == NumV(Max(1, OrDefault(parseInt(v), 1)))
sanEndEp(v)    == NumV(Min(10000, OrDefault(parseInt(v), 100)))
\* mutations: the lower clamp, or the upper clamp, is missing
sanLimitNoFloor(v) == NumV(Min(100, OrDefault(parseInt(v), 12)))
sanLimitNoCap(v)   == NumV(Max(1, OrDefault(parseInt(v), 12)))
sanLimit(v)    == NumV(Min(100, Max(1, OrDefault(parseInt(v), 12))))
sanPage(v)     == NumV(Max(1, OrDefault(parseInt(v), 1)))

sanKeys(params) == {k \in Keys : Truthy(params, k)}

sanValue(k, v) ==
    CASE k = "search"    -> sanSearch(v)
      [] k = "slug"      -> sanSlug(v)
      [] k = "season"    -> sanSeason(v)
      [] k = "episode"   -> sanEpisode(v)
      [] k = "season_id" -> sanSeasonId(v)
      [] k = "start_ep"  -> sanStartEp(v)
      [] k = "end_ep"    -> sanEndEp(v)
      [] k = "limit"     -> sanLimit(v)
      [] k = "page"      -> sanPage(v)

\* mutation: a default is injected for an absent limit
sanitizeParamsDefaults(params) ==
    [k \in sanKeys(params) \cup {"limit"} |->
        IF Truthy(params, k) THEN sanValue(k, params[k]) ELSE NumV(12)]

sanitizeParams(params) ==
    [k \in sanKeys(params) |-> sanValue(k, params[k])]

-----------------------------------------------------------------------------
(* JSON documents the upstream may answer with *)

JUndefined == [t |-> "undefined", s |-> "", items |-> <<>>, f |-> <<>>]
JNull      == [t |-> "null",      s |-> "", items |-> <<>>, f |-> <<>>]
JStr(x)    == [t |-> "string",    s |-> x,  items |-> <<>>, f |-> <<>>]
JArr(xs)   == [t |-> "array",     s |-> "", items |-> xs,   f |-> <<>>]
JObj(g)    == [t |-> "object",    s |-> "", items |-> <<>>, f |-> g]

Entry(type) == JObj("type" :> JStr(type))

Bodies ==
    { JNull,
      JObj(<<>>),
      JArr(<<Entry("movie"), Entry("tv"), Entry("tv")>>),
      JObj("data" :> JObj("results" :> JArr(<<Entry("movie"), Entry("ova")>>))),
      JObj("data" :> JObj("sources" :> JArr(<<JStr("s1")>>))),
      JObj("url" :> JStr("u")),
      JObj("results" :> JArr(<<Entry("movie"), Entry("movie")>>)),
      JObj("data" :> JArr(<<Entry("tv")>>)),
      JArr(<<JNull, Entry("movie")>>) }

\* the body of an upstream error response
ErrorDoc == JObj("error" :> JStr("upstream"))

-----------------------------------------------------------------------------
(* proxyToDeadAnime *)

maxRetries == 2

\* cleanParams: the entries whose value is not the empty string (the values
\* a parameter set holds are never undefined or null)
cleanParams(queryParams) ==
    [k \in {x \in DOMAIN queryParams :
                ~(queryParams[x].t = "string" /\ queryParams[x].s = <<>>)}
        |-> queryParams[k]]

\* application/x-www-form-urlencoded serialisation of one character
EncodeChar(c) ==
    CASE c = " " -> "+"
      [] c = "," -> "%2C"
      [] OTHER   -> c

ValueToString(v) == IF v.t = "number" THEN NumberToString(v.n) ELSE v.s

\* new URLSearchParams(cleanParams): the pairs in insertion order, each
\* value converted with String() and encoded
RECURSIVE PairsFrom(_, _)
PairsFrom(cp, i) ==
    IF i > Len(KeyOrder) THEN <<>>
    ELSE LET k == KeyOrder[i]
         IN (IF k \in DOMAIN cp
             THEN LET str == ValueToString(cp[k])
                  IN <<[k |-> k, v |-> [j \in 1..Len(str) |-> EncodeChar(str[j])]]>>
             ELSE <<>>) \o PairsFrom(cp, i + 1)

queryString(cp) == PairsFrom(cp, 1)

\* the URL of one attempt, without the configured base
url(endpoint, queryParams) ==
    [endpoint |-> endpoint, qs |-> queryString(cleanParams(queryParams))]

\* mutation: the loop runs one time too many
LoopContinuesOneMore(i) == i <= maxRetries + 1

\* for (...; attempt <= maxRetries; ...)
LoopContinues(i) == i <= maxRetries

\* mutation: axios' default validateStatus
validateStatusDefault(status) == status >= 200 /\ status < 300

\* validateStatus: axios resolves below 500 and rejects from 500 on
validateStatus(status) == status < 500

\* if (response.status >= 400) throw
IsErrorStatus(status) == status >= 400

\* mutation: the break looks at the wrong range
NoRetryBelow400(error) == error.hasResponse /\ error.status < 400

\* if (error.response && error.response.status < 500) break
NoRetry(error) == error.hasResponse /\ error.status < 500

\* mutation: a failed attempt is retried at once
WaitsBeforeRetryNever(i) == i < 0

\* if (attempt < maxRetries) wait
WaitsBeforeRetry(i) == i < maxRetries

\* mutation: a delay that does not grow
BackoffDelayFixed(i) == 1000

\* const delay = 1000 * Math.pow(2, attempt)
BackoffDelay(i) == 1000 * (2 ^ i)

\* error objects; "at" is the attempt that created the object
NoError == [kind |-> "none", hasResponse |-> FALSE, status |-> 0, at |-> 0 - 1]
UpstreamError(status, i) ==
    [kind |-> "upstream", hasResponse |-> TRUE, status |-> status, at |-> i]
AxiosStatusError(status, i) ==
    [kind |-> "axios", hasResponse |-> TRUE, status |-> status, at |-> i]
NetworkError(i) ==
    [kind |-> "network", hasResponse |-> FALSE, status |-> 0, at |-> i]
ExhaustedError ==
    [kind |-> "exhausted", hasResponse |-> FALSE, status |-> 0, at |-> 0 - 1]
TypeError ==
    [kind |-> "TypeError", hasResponse |-> FALSE, status |-> 0, at |-> 0 - 1]

\* mutation: the first error is kept
RecordFirstError(previous, error) ==
    IF previous.kind = "none" THEN error ELSE previous

\* lastError = error
RecordError(previous, error) == error

\* throw lastError || new Error('Request failed after all retries')
FinalError(le) == IF le.kind = "none" THEN ExhaustedError ELSE le

\* what one upstream attempt can end in
Statuses == {200, 399, 400, 404, 499, 500, 503}
Response(status, data) == [kind |-> "response", status |-> status, data |-> data]
NetworkFailure == [kind |-> "network", status |-> 0, data |-> JUndefined]
Outcomes ==
    {Response(st, d) : st \in {x \in Statuses : x < 400}, d \in Bodies}
    \cup {Response(st, ErrorDoc) : st \in {x \in Statuses : x >= 400}}
    \cup {NetworkFailure}

\* results of a call
NoResult      == [ok |-> FALSE, data |-> JUndefined, error |-> NoError]
Returned(d)   == [ok |-> TRUE,  data |-> d,          error |-> NoError]
Threw(e)      == [ok |-> FALSE, data |-> JUndefined, error |-> e]

\* history records: "attempt" i, "reply" to attempt i with status v and body
\* d, "network" failure of attempt i, "wait" of v ms after attempt i
Ev(ev, i, v, d) == [ev |-> ev, i |-> i, v |-> v, d |-> d]
\* the record of how an attempt ended
ReplyEv(i, o) ==
    IF o.kind = "network"
    THEN Ev("network", i, 0, JUndefined)
    ELSE Ev("reply", i, o.status, o.data)

-----------------------------------------------------------------------------
(* What the handlers do with a JSON document *)

Nullish(v) == v.t \in {"null", "undefined"}
\* v.k on a value that is not null or undefined
Get(v, k) == IF v.t = "object" /\ k \in DOMAIN v.f THEN v.f[k] ELSE JUndefined
\* v?.k
OptGet(v, k) == IF Nullish(v) THEN JUndefined ELSE Get(v, k)
\* a ?? b
Coalesce(a, b) == IF Nullish(a) THEN b ELSE a
\* !v  for the documents of this model
Falsy(v) == Nullish(v) \/ (v.t = "string" /\ v.s = "")
\* !v?.length
NoLength(v) ==
    \/ Nullish(v)
    \/ v.t = "object"
    \/ (v.t = "array" /\ Len(v.items) = 0)
    \/ (v.t = "string" /\ v.s = "")

\* data.data ?? data  raises a TypeError when data is null
SourceCheckThrows(data) == Nullish(data)
EpisodeWarns(data) ==
    LET episodeData == Coalesce(Get(data, "data"), data)
    IN NoLength(Get(episodeData, "sources")) /\ Falsy(Get(episodeData, "url"))
MovieWarns(data) ==
    LET movieData == Coalesce(Get(data, "data"), data)
    IN /\ NoLength(Get(movieData, "sources"))
       /\ Falsy(Get(movieData, "url"))
       /\ Falsy(Get(movieData, "video_url"))

\* data?.data?.results ?? data?.data ?? data?.results ?? data ?? []
StatsRaw(data) ==
    Coalesce(OptGet(OptGet(data, "data"), "results"),
      Coalesce(OptGet(data, "data"),
        Coalesce(OptGet(data, "results"),
          Coalesce(data, JArr(<<>>)))))

\* animeList, as the set of its positions (array) or field names (object)
AnimeIndex(raw) ==
    CASE raw.t = "array"  -> 1..Len(raw.items)
      [] raw.t = "object" -> {k \in DOMAIN raw.f : raw.f[k].t \in {"object", "array"}}
      [] OTHER            -> {}
AnimeAt(raw, x) == IF raw.t = "array" THEN raw.items[x] ELSE raw.f[x]
\* a.type on a null array element raises a TypeError
StatsThrows(data) ==
    LET raw == StatsRaw(data)
    IN \E x \in AnimeIndex(raw) : Nullish(AnimeAt(raw, x))
IsMovie(a) == Get(a, "type") = JStr("movie")
\* mutation: the series filter keeps every entry
StatsCountsSeriesAll(data) ==
    LET raw == StatsRaw(data)
        idx == AnimeIndex(raw)
    IN [total_fetched |-> Cardinality(idx),
        total_movies  |-> Cardinality({x \in idx : IsMovie(AnimeAt(raw, x))}),
        total_series  |-> Cardinality(idx)]

StatsCounts(data) ==
    LET raw == StatsRaw(data)
        idx == AnimeIndex(raw)
    IN [total_fetched |-> Cardinality(idx),
        total_movies  |-> Cardinality({x \in idx : IsMovie(AnimeAt(raw, x))}),
        total_series  |-> Cardinality({x \in idx : ~IsMovie(AnimeAt(raw, x))})]

-----------------------------------------------------------------------------
(* Responses to the inbound caller *)

NoCounts == [total_fetched |-> 0, total_movies |-> 0, total_series |-> 0]
NoBody == [kind |-> "none", data |-> JUndefined, fields |-> {},
           error |-> NoError, counts |-> NoCounts]
PassBody(d) == [kind |-> "passthrough", data |-> d, fields |-> {},
                error |-> NoError, counts |-> NoCounts]
ErrorBody(fields, e) == [kind |-> "error", data |-> JUndefined, fields |-> fields,
                         error |-> e, counts |-> NoCounts]
StatsBody(c) == [kind |-> "stats", data |-> JUndefined,
                 fields |-> {"total_fetched", "total_movies", "total_series",
                             "note", "timestamp"},
                 error |-> NoError, counts |-> c]
InfoBody(fields) == [kind |-> "info", data |-> JUndefined, fields |-> fields,
                     error |-> NoError, counts |-> NoCounts]

Reply(status, body) == [status |-> status, body |-> body]

ListPath    == "/api/deadanime/list"
AnimePath   == "/api/deadanime/anime"
EpisodePath == "/api/deadanime/episode"
MoviePath   == "/api/deadanime/movie"
PackPath    == "/api/deadanime/pack"
StatsPath   == "/api/stats"
HealthPath  == "/api/health"
RootPath    == "/"
OtherPath   == "/other"
Paths == {ListPath, AnimePath, EpisodePath, MoviePath, PackPath, StatsPath,
          HealthPath, RootPath, OtherPath}

\* error.response?.status || 500
ErrorStatus(error) ==
    IF error.hasResponse /\ error.status # 0 THEN error.status ELSE 500

\* the catch block of a route handler
OnFailure(path, error) ==
    IF path = StatsPath
    THEN Reply(500, ErrorBody({"error", "message"}, error))
    ELSE Reply(ErrorStatus(error), ErrorBody({"error", "message", "timestamp"}, error))

\* the rest of a route handler's try block once the call has returned
OnSuccess(path, data) ==
    CASE path \in {EpisodePath, MoviePath} ->
            IF SourceCheckThrows(data)
            THEN OnFailure(path, TypeError)
            ELSE Reply(200, PassBody(data))
      [] path = StatsPath ->
            IF StatsThrows(data)
            THEN OnFailure(path, TypeError)
            ELSE Reply(200, StatsBody(StatsCounts(data)))
      [] OTHER -> Reply(200, PassBody(data))

MissingParam(key) == Reply(400, ErrorBody({"error"}, NoError))

-----------------------------------------------------------------------------
(* Inputs *)

Reqs == 1..NumReqs

InKeys == Keys \cup {"foo"}

\* raw query values of the requests
RequestValues ==
    { <<>>, <<" ">>, <<"a">>, <<"5">>, <<"1", "0", "1">>, <<"5", "0", "0">>,
      <<"-", "5">>, <<"0">> }

\* req.query of the requests: nothing, one key, or a slug and one more key
RequestQueries ==
    {<<>>}
    \cup {k :> v : k \in InKeys, v \in RequestValues}
    \cup {(k :> v) @@ ("slug" :> <<"a">>) :
              k \in InKeys \ {"slug"}, v \in RequestValues}

\* raw query values for the sanitizer taken alone
SignedDigits ==
    {sg \o d : sg \in {<<>>, <<"-">>},
               d \in StringsUpTo(DecDigits, MaxDigits) \ {<<>>}}
RawValues == StringsUpTo(Alphabet, MaxLen) \cup SignedDigits

Companions ==
    { <<>>,
      "slug" :> <<"a">>,
      ("limit" :> <<"5">>) @@ ("foo" :> <<"a">>) }

SanInputs ==
    {<<>>} \cup {(k :> v) @@ c : k \in InKeys, v \in RawValues, c \in Companions}

\* requests and upstream outcomes of the interleaved executions
ConcRequests ==
    { [path |-> EpisodePath, q |-> <<>>],
      [path |-> EpisodePath, q |-> "slug" :> <<"a">>],
      [path |-> OtherPath,   q |-> <<>>] }
ConcOutcomes ==
    {Response(200, JNull), Response(404, ErrorDoc), Response(503, ErrorDoc),
     NetworkFailure}

\* upstream outcomes of the fair executions; the network failure stands for
\* the 20 s timeout too
FairOutcomes ==
    {Response(200, JObj("url" :> JStr("u"))), Response(404, ErrorDoc),
     NetworkFailure}

\* values of process.env.NODE_ENV
EnvValues == {"development", "production"}

-----------------------------------------------------------------------------
(* Initial state *)

\* new https.Agent({ rejectUnauthorized: ... }) at module load
LoadModule == rejectUnauthorized = (nodeEnv # "development")

ReqInit ==
    /\ pc           = [r \in Reqs |-> "idle"]
    /\ route        = [r \in Reqs |-> ""]
    /\ query        = [r \in Reqs |-> <<>>]
    /\ callEndpoint = [r \in Reqs |-> ""]
    /\ callParams   = [r \in Reqs |-> <<>>]
    /\ attempt      = [r \in Reqs |-> 0]
    /\ lastError    = [r \in Reqs |-> NoError]
    /\ callState    = [r \in Reqs |-> "NONE"]
    /\ callResult   = [r \in Reqs |-> NoResult]
    /\ sent         = [r \in Reqs |-> <<>>]
    /\ tls          = [r \in Reqs |-> <<>>]
    /\ log          = [r \in Reqs |-> <<>>]
    /\ resStatus    = [r \in Reqs |-> <<>>]
    /\ resBody      = [r \in Reqs |-> NoBody]

Init ==
    /\ ReqInit
    /\ nodeEnv = "production"
    /\ LoadModule
    /\ sanArg = <<>>
    /\ sanRet = <<>>
    /\ sanPc  = "unused"

SanInit ==
    /\ ReqInit
    /\ nodeEnv = "production"
    /\ LoadModule
    /\ sanArg \in SanInputs
    /\ sanRet = <<>>
    /\ sanPc  = "call"

\* a process started in either environment
TlsInit ==
    /\ ReqInit
    /\ nodeEnv \in EnvValues
    /\ LoadModule
    /\ sanArg = <<>>
    /\ sanRet = <<>>
    /\ sanPc  = "unused"

-----------------------------------------------------------------------------
(* Steps shared by the actions *)

\* the connection axios.get opens through httpsAgent
Connection == [env |-> nodeEnv, verify |-> rejectUnauthorized]

\* mutation: the handler answers twice
RespondTwice(r, reply) ==
    /\ resStatus' = [resStatus EXCEPT ![r] = Append(Append(@, reply.status),
                                                    reply.status)]
    /\ resBody'   = [resBody EXCEPT ![r] = reply.body]
    /\ pc'        = [pc EXCEPT ![r] = "done"]

\* res.status(...).json(...)
Respond(r, reply) ==
    /\ resStatus' = [resStatus EXCEPT ![r] = Append(@, reply.status)]
    /\ resBody'   = [resBody EXCEPT ![r] = reply.body]
    /\ pc'        = [pc EXCEPT ![r] = "done"]

\* the call returns or throws, and the handler answers
Finish(r, state, result) ==
    /\ callState'  = [callState EXCEPT ![r] = state]
    /\ callResult' = [callResult EXCEPT ![r] = result]
    /\ Respond(r, IF result.ok
                  THEN OnSuccess(route[r], result.data)
                  ELSE OnFailure(route[r], result.error))

\* mutation: the loop counter is one variable shared by all calls
IterateShared(r, endpoint, queryParams, i, le, lg) ==
    /\ attempt'   = [q \in Reqs |-> i]
    /\ lastError' = [lastError EXCEPT ![r] = le]
    /\ IF LoopContinues(i)
       THEN /\ sent' = [sent EXCEPT ![r] = Append(@, url(endpoint, queryParams))]
            /\ tls'  = [tls EXCEPT ![r] = Append(@, Connection)]
            /\ log'  = [log EXCEPT ![r] = Append(lg, Ev("attempt", i, 0, JUndefined))]
            /\ pc'   = [pc EXCEPT ![r] = "attempt"]
            /\ callState' = [callState EXCEPT ![r] = "PENDING"]
            /\ UNCHANGED <<callResult, resStatus, resBody>>
       ELSE /\ sent' = sent
            /\ tls'  = tls
            /\ log'  = [log EXCEPT ![r] = lg]
            /\ Finish(r, "FAILED", Threw(FinalError(le)))

\* the head of the for loop with counter i: issue attempt i, or leave the
\* loop and throw
Iterate(r, endpoint, queryParams, i, le, lg) ==
    /\ attempt'   = [attempt EXCEPT ![r] = i]
    /\ lastError' = [lastError EXCEPT ![r] = le]
    /\ IF LoopContinues(i)
       THEN /\ sent' = [sent EXCEPT ![r] = Append(@, url(endpoint, queryParams))]
            /\ tls'  = [tls EXCEPT ![r] = Append(@, Connection)]
            /\ log'  = [log EXCEPT ![r] = Append(lg, Ev("attempt", i, 0, JUndefined))]
            /\ pc'   = [pc EXCEPT ![r] = "attempt"]
            /\ callState' = [callState EXCEPT ![r] = "PENDING"]
            /\ UNCHANGED <<callResult, resStatus, resBody>>
       ELSE /\ sent' = sent
            /\ tls'  = tls
            /\ log'  = [log EXCEPT ![r] = lg]
            /\ Finish(r, "FAILED", Threw(FinalError(le)))

\* the catch block of proxyToDeadAnime for an error of attempt attempt[r]
Catch(r, error, lg) ==
    LET i  == attempt[r]
        le == RecordError(lastError[r], error)
    IN IF NoRetry(error)
       THEN /\ lastError' = [lastError EXCEPT ![r] = le]
            /\ log' = [log EXCEPT ![r] = lg]
            /\ UNCHANGED <<attempt, sent, tls>>
            /\ Finish(r, "CLIENT_ERROR", Threw(FinalError(le)))
       ELSE IF WaitsBeforeRetry(i)
            THEN /\ lastError' = [lastError EXCEPT ![r] = le]
                 /\ log' = [log EXCEPT ![r] =
                               Append(lg, Ev("wait", i, BackoffDelay(i), JUndefined))]
                 /\ pc' = [pc EXCEPT ![r] = "backoff"]
                 /\ UNCHANGED <<attempt, sent, tls, callState, callResult,
                                resStatus, resBody>>
            ELSE Iterate(r, callEndpoint[r], callParams[r], i + 1, le, lg)

\* proxyToDeadAnime(endpoint, queryParams) up to its first await
StartCall(r, endpoint, queryParams) ==
    /\ callEndpoint' = [callEndpoint EXCEPT ![r] = endpoint]
    /\ callParams'   = [callParams EXCEPT ![r] = queryParams]
    /\ Iterate(r, endpoint, queryParams, 0, NoError, log[r])

\* a handler that answers without calling the upstream
Answer(r, reply) ==
    /\ Respond(r, reply)
    /\ UNCHANGED <<callEndpoint, callParams, attempt, lastError, callState,
                   callResult, sent, tls, log>>

\* a handler with a required raw parameter
RequireAndCall(r, key, endpoint) ==
    IF ~Truthy(query[r], key)
    THEN Answer(r, MissingParam(key))
    ELSE StartCall(r, endpoint, sanitizeParams(query[r]))

-----------------------------------------------------------------------------
(* Actions *)

\* Express hands an inbound GET to its route
Receive(r, path, q) ==
    /\ pc[r] = "idle"
    /\ pc'    = [pc EXCEPT ![r] = "received"]
    /\ route' = [route EXCEPT ![r] = path]
    /\ query' = [query EXCEPT ![r] = q]
    /\ UNCHANGED <<callEndpoint, callParams, attempt, lastError, callState,
                   callResult, sent, tls, log, resStatus, resBody, sanVars,
                   envVars>>

ListHandler(r) ==
    /\ pc[r] = "received" /\ route[r] = ListPath
    /\ StartCall(r, "/list", sanitizeParams(query[r]))
    /\ UNCHANGED <<route, query, sanVars, envVars>>

AnimeHandler(r) ==
    /\ pc[r] = "received" /\ route[r] = AnimePath
    /\ RequireAndCall(r, "slug", "/anime")
    /\ UNCHANGED <<route, query, sanVars, envVars>>

EpisodeHandler(r) ==
    /\ pc[r] = "received" /\ route[r] = EpisodePath
    /\ RequireAndCall(r, "slug", "/episode")
    /\ UNCHANGED <<route, query, sanVars, envVars>>

MovieHandler(r) ==
    /\ pc[r] = "received" /\ route[r] = MoviePath
    /\ RequireAndCall(r, "slug", "/movie")
    /\ UNCHANGED <<route, query, sanVars, envVars>>

\* mutation: the presence check is missing
PackHandlerUnchecked(r) ==
    /\ pc[r] = "received" /\ route[r] = PackPath
    /\ StartCall(r, "/pack", sanitizeParams(query[r]))
    /\ UNCHANGED <<route, query, sanVars, envVars>>

PackHandler(r) ==
    /\ pc[r] = "received" /\ route[r] = PackPath
    /\ RequireAndCall(r, "season_id", "/pack")
    /\ UNCHANGED <<route, query, sanVars, envVars>>

StatsHandler(r) ==
    /\ pc[r] = "received" /\ route[r] = StatsPath
    /\ StartCall(r, "/list", ("limit" :> NumV(100)) @@ ("page" :> NumV(1)))
    /\ UNCHANGED <<route, query, sanVars, envVars>>

HealthHandler(r) ==
    /\ pc[r] = "received" /\ route[r] = HealthPath
    /\ Answer(r, Reply(200, InfoBody({"status", "message", "environment",
                                      "timestamp"})))
    /\ UNCHANGED <<route, query, sanVars, envVars>>

RootHandler(r) ==
    /\ pc[r] = "received" /\ route[r] = RootPath
    /\ Answer(r, Reply(200, InfoBody({"message", "status", "version",
                                      "endpoints"})))
    /\ UNCHANGED <<route, query, sanVars, envVars>>

NotFoundHandler(r) ==
    /\ pc[r] = "received" /\ route[r] = OtherPath
    /\ Answer(r, Reply(404, ErrorBody({"error", "path", "method", "timestamp"},
                                      NoError)))
    /\ UNCHANGED <<route, query, sanVars, envVars>>

\* axios.get resolves with a status below 400: the call returns the body
ReplySuccess(r, o) ==
    /\ pc[r] = "attempt"
    /\ o.kind = "response" /\ validateStatus(o.status) /\ ~IsErrorStatus(o.status)
    /\ log' = [log EXCEPT ![r] = Append(@, ReplyEv(attempt[r], o))]
    /\ Finish(r, "SUCCESS", Returned(o.data))
    /\ UNCHANGED <<attempt, lastError, sent, tls>>
    /\ UNCHANGED <<route, query, callEndpoint, callParams, sanVars, envVars>>

\* axios.get resolves with a status from 400 on: the try block throws
ReplyErrorStatus(r, o) ==
    /\ pc[r] = "attempt"
    /\ o.kind = "response" /\ validateStatus(o.status) /\ IsErrorStatus(o.status)
    /\ Catch(r, UpstreamError(o.status, attempt[r]),
             Append(log[r], ReplyEv(attempt[r], o)))
    /\ UNCHANGED <<route, query, callEndpoint, callParams, sanVars, envVars>>

\* axios.get rejects: a status validateStatus refuses, or no response at all
ReplyRejected(r, o) ==
    /\ pc[r] = "attempt"
    /\ \/ o.kind = "network"
       \/ o.kind = "response" /\ ~validateStatus(o.status)
    /\ Catch(r, IF o.kind = "network"
                THEN NetworkError(attempt[r])
                ELSE AxiosStatusError(o.status, attempt[r]),
             Append(log[r], ReplyEv(attempt[r], o)))
    /\ UNCHANGED <<route, query, callEndpoint, callParams, sanVars, envVars>>

\* the backoff timer fires: attempt++ and the loop goes on
BackoffElapsed(r) ==
    /\ pc[r] = "backoff"
    /\ Iterate(r, callEndpoint[r], callParams[r], attempt[r] + 1,
               lastError[r], log[r])
    /\ UNCHANGED <<route, query, callEndpoint, callParams, sanVars, envVars>>

\* the answered request is over; its slot serves the next one
Close(r) ==
    /\ pc[r] = "done"
    /\ pc'           = [pc EXCEPT ![r] = "idle"]
    /\ route'        = [route EXCEPT ![r] = ""]
    /\ query'        = [query EXCEPT ![r] = <<>>]
    /\ callEndpoint' = [callEndpoint EXCEPT ![r] = ""]
    /\ callParams'   = [callParams EXCEPT ![r] = <<>>]
    /\ attempt'      = [attempt EXCEPT ![r] = 0]
    /\ lastError'    = [lastError EXCEPT ![r] = NoError]
    /\ callState'    = [callState EXCEPT ![r] = "NONE"]
    /\ callResult'   = [callResult EXCEPT ![r] = NoResult]
    /\ sent'         = [sent EXCEPT ![r] = <<>>]
    /\ tls'          = [tls EXCEPT ![r] = <<>>]
    /\ log'          = [log EXCEPT ![r] = <<>>]
    /\ resStatus'    = [resStatus EXCEPT ![r] = <<>>]
    /\ resBody'      = [resBody EXCEPT ![r] = NoBody]
    /\ UNCHANGED <<sanVars, envVars>>

\* the deployment changes process.env.NODE_ENV of the running process
SetNodeEnv(e) ==
    /\ e # nodeEnv
    /\ nodeEnv' = e
    /\ UNCHANGED <<reqVars, sanVars, rejectUnauthorized>>

\* one sanitizeParams call
SanCall ==
    /\ sanPc = "call"
    /\ sanRet' = sanitizeParams(sanArg)
    /\ sanPc'  = "returned"
    /\ UNCHANGED <<sanArg, reqVars, envVars>>

-----------------------------------------------------------------------------
(* Specifications *)

\* requests served one after the other
ReceiveNext(r) ==
    /\ \A other \in Reqs : pc[other] = "idle"
    /\ \E path \in Paths, q \in RequestQueries : Receive(r, path, q)

Next ==
    \E r \in Reqs :
        \/ ReceiveNext(r)
        \/ ListHandler(r)
        \/ AnimeHandler(r)
        \/ EpisodeHandler(r)
        \/ MovieHandler(r)
        \/ PackHandler(r)
        \/ StatsHandler(r)
        \/ HealthHandler(r)
        \/ RootHandler(r)
        \/ NotFoundHandler(r)
        \/ \E o \in Outcomes : ReplySuccess(r, o)
        \/ \E o \in Outcomes : ReplyErrorStatus(r, o)
        \/ \E o \in Outcomes : ReplyRejected(r, o)
        \/ BackoffElapsed(r)
        \/ Close(r)

Spec == Init /\ [][Next]_vars

\* requests handled concurrently: every await lets another request run
ConcReceive(r) ==
    \E req \in ConcRequests : Receive(r, req.path, req.q)

ConcNext ==
    \E r \in Reqs :
        \/ ConcReceive(r)
        \/ EpisodeHandler(r)
        \/ NotFoundHandler(r)
        \/ \E o \in ConcOutcomes : ReplySuccess(r, o)
        \/ \E o \in ConcOutcomes : ReplyErrorStatus(r, o)
        \/ \E o \in ConcOutcomes : ReplyRejected(r, o)
        \/ BackoffElapsed(r)
        \/ Close(r)

ConcSpec == Init /\ [][ConcNext]_vars

\* the same, where Express runs the handler of a received request, every
\* axios.get settles (a response, a network error or the 20 s timeout) and
\* every backoff timer fires
HandlerRuns(r) ==
    EpisodeHandler(r) \/ NotFoundHandler(r)
AttemptSettles(r) ==
    \E o \in FairOutcomes :
        ReplySuccess(r, o) \/ ReplyErrorStatus(r, o) \/ ReplyRejected(r, o)

FairNext ==
    \E r \in Reqs :
        \/ ConcReceive(r)
        \/ HandlerRuns(r)
        \/ AttemptSettles(r)
        \/ BackoffElapsed(r)
        \/ Close(r)

FairConcSpec ==
    /\ Init
    /\ [][FairNext]_vars
    /\ \A r \in Reqs : /\ WF_vars(HandlerRuns(r))
                        /\ WF_vars(AttemptSettles(r))
                        /\ WF_vars(BackoffElapsed(r))

\* requests served one after the other by a process whose NODE_ENV changes
TlsReceive(r) ==
    /\ \A other \in Reqs : pc[other] = "idle"
    /\ \E req \in ConcRequests : Receive(r, req.path, req.q)

TlsNext ==
    \/ \E e \in EnvValues : SetNodeEnv(e)
    \/ \E r \in Reqs :
          \/ TlsReceive(r)
          \/ EpisodeHandler(r)
          \/ NotFoundHandler(r)
          \/ \E o \in ConcOutcomes : ReplySuccess(r, o)
          \/ \E o \in ConcOutcomes : ReplyErrorStatus(r, o)
          \/ \E o \in ConcOutcomes : ReplyRejected(r, o)
          \/ BackoffElapsed(r)
          \/ Close(r)

TlsSpec == TlsInit /\ [][TlsNext]_vars

\* the sanitizer on every input of SanInputs
SanNext == SanCall

SanSpec == SanInit /\ [][SanNext]_vars

-----------------------------------------------------------------------------
(* Vocabulary of the properties *)

\* the request's proxy call is over
CallEnded(r) == callState[r] \in {"SUCCESS", "CLIENT_ERROR", "FAILED"}

\* how attempts ended, as recorded in the log
IsOutcome(e) == e.ev \in {"reply", "network"}
RetryableFailure(e) == e.ev = "network" \/ (e.ev = "reply" /\ e.v >= 500)
ClientFailure(e) == e.ev = "reply" /\ e.v >= 400 /\ e.v <= 499
Success(e) == e.ev = "reply" /\ e.v < 400

OutcomesOf(r) == SelectSeq(log[r], IsOutcome)
AllRetryable(r) ==
    \A j \in 1..Len(OutcomesOf(r)) : RetryableFailure(OutcomesOf(r)[j])

-----------------------------------------------------------------------------
(* Properties *)

\* C1: a proxy call never issues more than 3 upstream attempts, and a call
\* whose attempts all ended in a retryable failure (status >= 500 or network
\* failure) has issued exactly 3 attempts and has failed.
C1_AtMostThreeAttempts ==
    \A r \in Reqs :
        /\ Len(sent[r]) <= 3
        /\ (CallEnded(r) /\ AllRetryable(r)) =>
               /\ Len(sent[r]) = 3
               /\ Len(OutcomesOf(r)) = 3
               /\ callState[r] = "FAILED"
               /\ ~callResult[r].ok

\* C1 witness: an upstream that answered 503 three times
C1_Witness ==
    \E r \in Reqs :
        /\ callState[r] = "FAILED"
        /\ Len(sent[r]) = 3
        /\ \A j \in 1..3 : OutcomesOf(r)[j].ev = "reply" /\ OutcomesOf(r)[j].v = 503

\* C2: an attempt answered with a status in [400, 499] is the last thing the
\* call does: no attempt and no wait follows it, the call has failed with an
\* error carrying that status and response, and when that attempt was the
\* first one exactly 1 attempt was made.
C2_ClientErrorFailsAtOnce ==
    \A r \in Reqs : \A j \in 1..Len(log[r]) :
        ClientFailure(log[r][j]) =>
            /\ j = Len(log[r])
            /\ callState[r] = "CLIENT_ERROR"
            /\ ~callResult[r].ok
            /\ callResult[r].error.hasResponse
            /\ callResult[r].error.status = log[r][j].v
            /\ Len(sent[r]) = log[r][j].i + 1
            /\ (log[r][j].i = 0 => Len(sent[r]) = 1)

\* C2 witness: a 404 on the first attempt
C2_Witness ==
    \E r \in Reqs :
        /\ Len(log[r]) = 2
        /\ log[r][2].ev = "reply" /\ log[r][2].v = 404 /\ log[r][2].i = 0
        /\ Len(sent[r]) = 1
        /\ callState[r] = "CLIENT_ERROR"

\* C3: an attempt answered with a status below 400 is the last thing the
\* call does: the call has returned that response's body and no attempt
\* follows.
C3_SuccessShortCircuits ==
    \A r \in Reqs : \A j \in 1..Len(log[r]) :
        Success(log[r][j]) =>
            /\ j = Len(log[r])
            /\ callState[r] = "SUCCESS"
            /\ callResult[r].ok
            /\ callResult[r].data = log[r][j].d
            /\ Len(sent[r]) = log[r][j].i + 1

\* C3 witness: retryable failure, retryable failure, then 200 on the 3rd
\* attempt
C3_Witness ==
    \E r \in Reqs :
        /\ Len(OutcomesOf(r)) = 3
        /\ RetryableFailure(OutcomesOf(r)[1])
        /\ RetryableFailure(OutcomesOf(r)[2])
        /\ OutcomesOf(r)[3].ev = "reply" /\ OutcomesOf(r)[3].v = 200
        /\ callState[r] = "SUCCESS"
        /\ Len(sent[r]) = 3

\* C4: a wait stands exactly between a retryable failure of attempt i
\* (i = 0, 1) and attempt i + 1 and lasts 1000ms * 2^i: 1000ms before the 2nd
\* attempt, 2000ms before the 3rd; nothing follows a failed 3rd attempt, a
\* 4xx or a success.
C4_BackoffBetweenRetries ==
    \A r \in Reqs : \A j \in 1..Len(log[r]) :
        LET e == log[r][j]
        IN /\ e.ev = "wait" =>
                 /\ j > 1 /\ RetryableFailure(log[r][j - 1]) /\ log[r][j - 1].i = e.i
                 /\ e.i \in {0, 1}
                 /\ e.v = (IF e.i = 0 THEN 1000 ELSE 2000)
                 /\ j < Len(log[r]) =>
                        log[r][j + 1].ev = "attempt" /\ log[r][j + 1].i = e.i + 1
           /\ (e.ev = "attempt" /\ e.i > 0) =>
                 /\ log[r][j - 1].ev = "wait" /\ log[r][j - 1].i = e.i - 1
           /\ (RetryableFailure(e) /\ e.i < 2) =>
                 /\ j < Len(log[r]) /\ log[r][j + 1].ev = "wait"
           /\ ((RetryableFailure(e) /\ e.i >= 2) \/ ClientFailure(e) \/ Success(e)) =>
                 j = Len(log[r])

\* C4 witness: both waits were made and the 3rd attempt is in flight
C4_Witness ==
    \E r \in Reqs :
        /\ Len(log[r]) = 7
        /\ log[r][3].ev = "wait" /\ log[r][3].v = 1000
        /\ log[r][6].ev = "wait" /\ log[r][6].v = 2000
        /\ log[r][7].ev = "attempt" /\ log[r][7].i = 2

\* C5: when all 3 attempts ended in retryable failures, the error thrown to
\* the caller is the one the 3rd attempt produced: a network error if that
\* attempt failed at network level, an error carrying its status if it was
\* answered 5xx.
C5_LastFailureRaised ==
    \A r \in Reqs :
        (CallEnded(r) /\ AllRetryable(r) /\ Len(OutcomesOf(r)) = 3) =>
            LET last == OutcomesOf(r)[3]
                err  == callResult[r].error
            IN /\ ~callResult[r].ok
               /\ err.at = 2
               /\ last.ev = "network" => (err.kind = "network" /\ ~err.hasResponse)
               /\ last.ev = "reply" => (err.hasResponse /\ err.status = last.v)

\* C5 witness: the three failures differ, the last being a 500
C5_Witness ==
    \E r \in Reqs :
        /\ callState[r] = "FAILED"
        /\ Len(OutcomesOf(r)) = 3
        /\ OutcomesOf(r)[1].ev = "network"
        /\ OutcomesOf(r)[2].ev = "reply" /\ OutcomesOf(r)[2].v = 503
        /\ OutcomesOf(r)[3].ev = "reply" /\ OutcomesOf(r)[3].v = 500
        /\ callResult[r].error.status = 500

\* a request that lacks a raw parameter: the key is not in the query, or its
\* value is the empty string
Lacks(r, key) == key \notin DOMAIN query[r] \/ query[r][key] = <<>>

MissesRequired(r) ==
    \/ route[r] \in {AnimePath, EpisodePath, MoviePath} /\ Lacks(r, "slug")
    \/ route[r] = PackPath /\ Lacks(r, "season_id")

\* C6: a request to /anime, /episode or /movie without slug, or to /pack
\* without season_id, never has an upstream attempt made for it, at any point
\* of its handling, and the one answer it gets is HTTP 400.
C6_MissingParamNoUpstream ==
    \A r \in Reqs :
        MissesRequired(r) =>
            /\ sent[r] = <<>>
            /\ log[r] = <<>>
            /\ callState[r] = "NONE"
            /\ pc[r] \in {"received", "done"}
            /\ pc[r] = "done" => resStatus[r] = <<400>>

\* C6 witness: /pack without season_id (another parameter is given) has been
\* answered
C6_Witness ==
    \E r \in Reqs :
        /\ route[r] = PackPath
        /\ "season_id" \notin DOMAIN query[r]
        /\ "slug" \in DOMAIN query[r]
        /\ pc[r] = "done"
        /\ resStatus[r] = <<400>>

\* C7: whenever end_ep is present in the input of sanitizeParams, the output
\* end_ep is an integer in [1, 10000].
C7_EndEpInRange ==
    (sanPc = "returned" /\ Truthy(sanArg, "end_ep")) =>
        /\ "end_ep" \in DOMAIN sanRet
        /\ sanRet["end_ep"].t = "number"
        /\ sanRet["end_ep"].n >= 1
        /\ sanRet["end_ep"].n <= 10000

\* a raw value without any decimal digit
NoDigit(v) ==
    \A j \in 1..Len(v) :
        v[j] \notin {"0", "1", "2", "3", "4", "5", "6", "7", "8", "9"}

\* C8: in every output of sanitizeParams, limit (when there) is in [1, 100]
\* and page, season, episode and start_ep (when there) are >= 1; a raw value
\* that is not numeric gives 12 for limit and 1 for the other four.
C8_NumericFieldsInRange ==
    sanPc = "returned" =>
        \A k \in DOMAIN sanRet :
            /\ k = "limit" =>
                   /\ sanRet[k].t = "number"
                   /\ sanRet[k].n >= 1 /\ sanRet[k].n <= 100
                   /\ NoDigit(sanArg[k]) => sanRet[k].n = 12
            /\ k \in {"page", "season", "episode", "start_ep"} =>
                   /\ sanRet[k].t = "number"
                   /\ sanRet[k].n >= 1
                   /\ NoDigit(sanArg[k]) => sanRet[k].n = 1

\* C8 witness: a negative limit was raised to 1
C8_Witness ==
    /\ sanPc = "returned"
    /\ "limit" \in DOMAIN sanArg
    /\ sanArg["limit"] = <<"-", "5">>
    /\ sanRet["limit"].n = 1

\* C9: every key of the output of sanitizeParams is a recognized key that is
\* present in the input.
C9_AbsentStaysAbsent ==
    sanPc = "returned" =>
        /\ DOMAIN sanRet \subseteq Keys
        /\ DOMAIN sanRet \subseteq DOMAIN sanArg

\* C9 witness: slug and an unrecognized key went in, only slug came out
C9_Witness ==
    /\ sanPc = "returned"
    /\ DOMAIN sanArg = {"foo", "slug"}
    /\ DOMAIN sanRet = {"slug"}

\* the query string of an upstream GET
HasParam(qs, key) == \E j \in 1..Len(qs) : qs[j].k = key
ParamOf(qs, key) == qs[CHOOSE j \in 1..Len(qs) : qs[j].k = key].v

IsDecimalString(v) ==
    /\ v # <<>>
    /\ \A j \in 1..Len(v) :
           v[j] \in {"0", "1", "2", "3", "4", "5", "6", "7", "8", "9"}
DecimalValue(v) == DigitsValue(v, 10, 0)

\* the inbound limit is an integer greater than 100
InboundLimitOver100(r) ==
    /\ "limit" \in DOMAIN query[r]
    /\ IsDecimalString(query[r]["limit"])
    /\ DecimalValue(query[r]["limit"]) > 100

\* C10: every upstream GET issued for /api/deadanime/list that carries a
\* limit carries one in [1, 100]; it carries limit=100 when the inbound limit
\* is an integer above 100; and every retry carries what the first attempt
\* carried.
C10_ListLimitClamped ==
    \A r \in Reqs :
        route[r] = ListPath =>
            \A j \in 1..Len(sent[r]) :
                LET qs == sent[r][j].qs
                IN /\ HasParam(qs, "limit") =>
                         /\ IsDecimalString(ParamOf(qs, "limit"))
                         /\ DecimalValue(ParamOf(qs, "limit")) >= 1
                         /\ DecimalValue(ParamOf(qs, "limit")) <= 100
                   /\ InboundLimitOver100(r) =>
                         /\ HasParam(qs, "limit")
                         /\ ParamOf(qs, "limit") = <<"1", "0", "0">>
                   /\ sent[r][j] = sent[r][1]

\* C10 witness: limit=500 came in and three GETs with limit=100 went out
C10_Witness ==
    \E r \in Reqs :
        /\ route[r] = ListPath
        /\ "limit" \in DOMAIN query[r]
        /\ query[r]["limit"] = <<"5", "0", "0">>
        /\ Len(sent[r]) = 3
        /\ \A j \in 1..3 : ParamOf(sent[r][j].qs, "limit") = <<"1", "0", "0">>

\* the request's call threw to its handler
CallFailed(r) == callState[r] \in {"CLIENT_ERROR", "FAILED"} /\ ~callResult[r].ok

\* the routes whose handler calls the upstream
CallingPaths == {ListPath, AnimePath, EpisodePath, MoviePath, PackPath, StatsPath}

\* C11: when the upstream call of a request has failed, the status sent to
\* the inbound caller is the status the failure carries (a 4xx, or the last
\* 5xx) and 500 when it carries none, on every route that calls the upstream.
C11_FailureStatusPropagated ==
    \A r \in Reqs :
        (route[r] \in CallingPaths /\ CallFailed(r) /\ pc[r] = "done") =>
            resStatus[r] = << IF callResult[r].error.hasResponse
                              THEN callResult[r].error.status
                              ELSE 500 >>

\* C12: when the upstream call of an /episode or /movie request has
\* succeeded, the answer is HTTP 200 with the upstream body unmodified,
\* whatever that body is.
C12_SourceCheckLeavesResponse ==
    \A r \in Reqs :
        (route[r] \in {EpisodePath, MoviePath} /\ callState[r] = "SUCCESS"
            /\ pc[r] = "done") =>
            /\ resStatus[r] = <<200>>
            /\ resBody[r].kind = "passthrough"
            /\ resBody[r].data = callResult[r].data

\* C13: every failed upstream call is answered by its handler with the
\* error envelope holding error, message and timestamp, on every route that
\* calls the upstream.
C13_FailureEnvelope ==
    \A r \in Reqs :
        (route[r] \in CallingPaths /\ CallFailed(r) /\ pc[r] = "done") =>
            /\ resBody[r].kind = "error"
            /\ {"error", "message", "timestamp"} \subseteq resBody[r].fields
            /\ resBody[r].error = callResult[r].error

\* the list of entries of an upstream document: the document itself,
\* data.results, data or results, whichever is an array
Field(d, k) == IF d.t = "object" /\ k \in DOMAIN d.f THEN d.f[k] ELSE JUndefined
HasList(d) ==
    \/ d.t = "array"
    \/ Field(Field(d, "data"), "results").t = "array"
    \/ Field(d, "data").t = "array"
    \/ Field(d, "results").t = "array"
ListOf(d) ==
    CASE d.t = "array" -> d.items
      [] Field(Field(d, "data"), "results").t = "array" ->
            Field(Field(d, "data"), "results").items
      [] Field(d, "data").t = "array" -> Field(d, "data").items
      [] OTHER -> Field(d, "results").items

RECURSIVE CountMovies(_)
CountMovies(entries) ==
    IF entries = <<>> THEN 0
    ELSE (IF Field(Head(entries), "type") = JStr("movie") THEN 1 ELSE 0)
         + CountMovies(Tail(entries))

\* C14: in every 200 answer of /api/stats, total_movies + total_series =
\* total_fetched; when the upstream document holds a list of entries,
\* total_fetched is its length, total_movies the number of entries of type
\* "movie" and total_series the number of the others; and every upstream GET
\* of /api/stats is /list?limit=100&page=1.
C14_StatsCounts ==
    \A r \in Reqs :
        route[r] = StatsPath =>
            /\ \A j \in 1..Len(sent[r]) :
                   /\ sent[r][j].endpoint = "/list"
                   /\ sent[r][j].qs = << [k |-> "limit", v |-> <<"1", "0", "0">>],
                                         [k |-> "page",  v |-> <<"1">>] >>
            /\ (pc[r] = "done" /\ resStatus[r] = <<200>>) =>
                   LET c == resBody[r].counts
                       d == callResult[r].data
                   IN /\ resBody[r].kind = "stats"
                      /\ c.total_movies + c.total_series = c.total_fetched
                      /\ HasList(d) =>
                            /\ c.total_fetched = Len(ListOf(d))
                            /\ c.total_movies = CountMovies(ListOf(d))
                            /\ c.total_series = Len(ListOf(d)) - CountMovies(ListOf(d))

\* C14 witness: the upstream list movie, tv, tv gave 1 movie, 2 series, 3
\* fetched
C14_Witness ==
    \E r \in Reqs :
        /\ route[r] = StatsPath
        /\ pc[r] = "done"
        /\ resStatus[r] = <<200>>
        /\ callResult[r].data = JArr(<<Entry("movie"), Entry("tv"), Entry("tv")>>)
        /\ resBody[r].counts = [total_fetched |-> 3, total_movies |-> 1,
                                total_series |-> 2]

\* the attempts of request r that have ended, as the call's own log tells
EndedAttempts(r) == Len(OutcomesOf(r))

\* what one step may do to the call of request r
C15_CallStep(r) ==
    \* a call starts PENDING at attempt 0 with no failure recorded
    /\ (callState[r] = "NONE" /\ callState'[r] # "NONE") =>
           /\ callState'[r] = "PENDING"
           /\ attempt'[r] = 0
           /\ lastError'[r] = NoError
           /\ Len(sent'[r]) = 1
    \* a pending call stays pending or ends in one of the three end states
    /\ callState[r] = "PENDING" =>
           callState'[r] \in {"PENDING", "SUCCESS", "CLIENT_ERROR", "FAILED"}
    \* an ended call keeps its end state and attempts nothing more
    /\ (CallEnded(r) /\ pc'[r] # "idle") =>
           /\ callState'[r] = callState[r]
           /\ sent'[r] = sent[r]
           /\ attempt'[r] = attempt[r]
    \* a step of another request leaves the call alone
    /\ pc'[r] = pc[r] =>
           /\ attempt'[r] = attempt[r]
           /\ lastError'[r] = lastError[r]
           /\ callState'[r] = callState[r]
           /\ sent'[r] = sent[r]
           /\ log'[r] = log[r]
    \* the attempt index and the failure record follow the call's own log
    /\ callState[r] = "PENDING" =>
           /\ attempt[r] = Len(sent[r]) - 1
           /\ attempt[r] = IF pc[r] = "attempt" THEN EndedAttempts(r)
                                                ELSE EndedAttempts(r) - 1
           /\ (EndedAttempts(r) = 0) = (lastError[r] = NoError)
           /\ EndedAttempts(r) > 0 => lastError[r].at = EndedAttempts(r) - 1
    \* only a call that used its 3 attempts is FAILED
    /\ callState[r] = "FAILED" =>
           /\ Len(sent[r]) = 3
           /\ EndedAttempts(r) = 3
           /\ AllRetryable(r)

\* C15: every proxy call starts PENDING at attempt index 0 and ends in
\* exactly one of SUCCESS, CLIENT_ERROR, FAILED, after which it attempts
\* nothing more; the attempt index and the failure record of a call depend
\* on its own attempts only, whatever other requests do in between, so that
\* each call has its 3 attempts.
C15_CallStateMachine == [][\A r \in Reqs : C15_CallStep(r)]_vars

\* C15 witness: a call has failed after 3 attempts while the call of another
\* request is at its first attempt
C15_Witness ==
    \E r, q \in Reqs :
        /\ r # q
        /\ callState[r] = "FAILED" /\ Len(sent[r]) = 3
        /\ callState[q] = "PENDING" /\ attempt[q] = 0 /\ pc[q] = "attempt"

AttemptEvents(r) == SelectSeq(log[r], LAMBDA e : e.ev = "attempt")

\* C16: a request has at most one chain of upstream attempts, numbered 0, 1,
\* 2 in order; an attempt is issued only when the one before it has ended in
\* a retryable failure and the backoff wait after that failure has elapsed,
\* so that at most one attempt of the request is in flight; and all GETs of
\* the chain go to the same endpoint with the same query parameters.
C16_OneSequentialChain ==
    \A r \in Reqs :
        LET lg == log[r]
            inFlight == Len(AttemptEvents(r)) - Len(OutcomesOf(r))
        IN /\ \A j \in 1..Len(AttemptEvents(r)) : AttemptEvents(r)[j].i = j - 1
           /\ Len(sent[r]) = Len(AttemptEvents(r))
           /\ inFlight \in {0, 1}
           /\ (inFlight = 1) = (pc[r] = "attempt")
           /\ \A j \in 1..Len(lg) :
                  /\ lg[j].ev = "attempt" =>
                         \/ j = 1
                         \/ /\ j > 2
                            /\ lg[j - 1].ev = "wait" /\ lg[j - 1].i = lg[j].i - 1
                            /\ RetryableFailure(lg[j - 2]) /\ lg[j - 2].i = lg[j].i - 1
                  /\ IsOutcome(lg[j]) =>
                         j > 1 /\ lg[j - 1].ev = "attempt" /\ lg[j - 1].i = lg[j].i
                  /\ lg[j].ev = "wait" =>
                         j > 1 /\ RetryableFailure(lg[j - 1]) /\ lg[j - 1].i = lg[j].i
           /\ pc[r] = "backoff" => (lg # <<>> /\ lg[Len(lg)].ev = "wait")
           /\ \A j \in 1..Len(sent[r]) :
                  /\ sent[r][j] = sent[r][1]
                  /\ sent[r][j] = url(callEndpoint[r], callParams[r])

\* C16 witness: a chain of 3 attempts, each after the failure of the one
\* before and a wait, all with the same non-empty query string
C16_Witness ==
    \E r \in Reqs :
        /\ pc[r] = "done"
        /\ Len(sent[r]) = 3
        /\ Len(sent[r][1].qs) = 2
        /\ sent[r][3] = sent[r][1]
        /\ Len(log[r]) = 8
        /\ log[r][4].ev = "attempt" /\ log[r][3].ev = "wait"

\* C17: every upstream attempt verifies the upstream's certificate exactly
\* when NODE_ENV, read when the attempt is made, is not "development".
C17_TlsDecidedAtCallTime ==
    \A r \in Reqs :
        \A j \in 1..Len(tls[r]) :
            tls[r][j].verify = (tls[r][j].env # "development")

Trimmed(v) == v = <<>> \/ (~IsWhiteSpace(v[1]) /\ ~IsWhiteSpace(v[Len(v)]))

\* C18: in the output of sanitizeParams, search is absent or a non-empty
\* string of at most 200 characters without leading or trailing white space,
\* slug is absent or a non-empty string without leading or trailing white
\* space, and a raw value that is empty once trimmed leaves its key absent.
C18_TextFieldsTrimmedOrOmitted ==
    sanPc = "returned" =>
        \A k \in {"search", "slug"} :
            /\ k \in DOMAIN sanRet =>
                   /\ sanRet[k].t = "string"
                   /\ sanRet[k].s # <<>>
                   /\ Trimmed(sanRet[k].s)
                   /\ k = "search" => Len(sanRet[k].s) <= 200
            /\ (k \in DOMAIN sanArg /\ trim(sanArg[k]) = <<>>) =>
                   k \notin DOMAIN sanRet

\* C19: every upstream GET of /anime, /episode or /movie carries a non-empty
\* slug parameter, and every upstream GET of /pack a non-empty season_id.
C19_RequiredParamReachesUpstream ==
    \A r \in Reqs :
        \A j \in 1..Len(sent[r]) :
            LET required == IF sent[r][j].endpoint = "/pack" THEN "season_id"
                            ELSE "slug"
            IN sent[r][j].endpoint \in {"/anime", "/episode", "/movie", "/pack"} =>
                   /\ HasParam(sent[r][j].qs, required)
                   /\ ParamOf(sent[r][j].qs, required) # <<>>

WaitEvents(r) == SelectSeq(log[r], LAMBDA e : e.ev = "wait")

\* the responses sent for request r so far: none before the handler has
\* answered, one after
OneResponse(r) ==
    /\ Len(resStatus[r]) <= 1
    /\ (pc[r] = "done") = (Len(resStatus[r]) = 1)

AnsweredWithinBudget(r) ==
    /\ pc[r] = "done"
    /\ Len(resStatus[r]) = 1
    /\ Len(sent[r]) <= 3
    /\ Len(WaitEvents(r)) <= 2

\* C20: a request never has more than one response, it has none until its
\* handler has answered and exactly one from then on; and, when every
\* attempt settles and every backoff wait elapses, every received request
\* is eventually answered, after at most 3 attempts and 2 waits.
C20_ExactlyOneResponse ==
    \A r \in Reqs :
        /\ [](OneResponse(r))
        /\ (pc[r] = "received") ~> AnsweredWithinBudget(r)

\* C20 witness: a request answered once after 3 attempts and 2 waits
C20_Witness ==
    \E r \in Reqs :
        /\ pc[r] = "done"
        /\ Len(resStatus[r]) = 1
        /\ Len(sent[r]) = 3
        /\ Len(WaitEvents(r)) = 2

====
